---- MODULE Spec2Model ----
(***************************************************************************)
(* Model of Homework2/Code/DDP/resnet18_mnist_ddp.py: one SLURM job of     *)
(* world_size processes, each running main().  A process is named by the   *)
(* global rank the scheduler assigned to it (0 .. world_size-1).           *)
(*                                                                         *)
(* Numeric tensors are abstracted to one integer modulo ParamMod per       *)
(* replica; an example of the dataset is its index 0 .. N-1.               *)
(***************************************************************************)
EXTENDS Integers, Sequences, FiniteSets, TLC

\* ------------------------------------------------------------------ bounds
MaxW == 2            \* world sizes 1 .. MaxW
MaxN == 3            \* dataset sizes 1 .. MaxN in the job specification
MaxB == 2            \* --batch-size 1 .. MaxB in the job specification
MaxE == 2            \* --epochs 0 .. MaxE
ParamMod == 2        \* parameters, gradients and momentum are integers mod ParamMod
ShardMaxN == 10      \* dataset sizes 1 .. ShardMaxN in the sampler specification
ShardMaxB == 5       \* batch sizes 1 .. ShardMaxB in the sampler specification
FullShuffleN == 4    \* the sampler specification tries every shuffle up to this dataset size
JobShuffleN == 2     \* the job specification tries every shuffle up to this dataset size

\* ------------------------------------------------------------------ state
VARIABLES
    world_size,   \* SLURM_NTASKS of the job
    environ,      \* environ[p][v]: what process p finds in os.environ for variable v
    args,         \* the parsed command line, the same for every process of the job
    dataset_len,  \* number of examples of the MNIST training set in datasetDir
    indices,      \* the sampler's seeded shuffle of 0 .. dataset_len-1 (same on every rank)
    pc,           \* pc[p]: where process p is in main()
    called,       \* processes that have called init_process_group
    joined,       \* processes whose call has connected to the rendezvous
    shard,        \* shard[p]: the index sequence train_sampler yields on process p
    params,       \* params[p]: the replica's parameters
    momentum,     \* momentum[p]: the SGD momentum buffer
    bcast,        \* rank 0's parameters as broadcast by DistributedDataParallel (-1: not yet)
    epoch,        \* epoch[p]: loop variable of main's for loop
    batch_idx,    \* batch_idx[p]: loop variable of train's for loop
    contrib,      \* contrib[p]: the local gradients p handed to all-reduce, in call order
    console,      \* console[p]: the lines p printed, by kind
    trace,        \* trace[p]: the operations p has performed, in order
    ckpt,         \* content of mnist_cnn.pt (-1: the file has not been written)
    writers,      \* processes that have executed torch.save
    test_len,     \* number of examples of the MNIST test set in datasetDir
    test_shard,   \* test_shard[p]: the index sequence test_sampler yields on process p
    correct       \* correct[p]: the count test() accumulated on p in its last call

vars == <<world_size, environ, args, dataset_len, indices, pc, called, joined, shard,
          params, momentum, bcast, epoch, batch_idx, contrib, console, trace, ckpt, writers,
          test_len, test_shard, correct>>

Procs == 0 .. (world_size - 1)

\* ------------------------------------------------------------------ helpers
EnvVars == <<"SLURM_PROCID", "SLURM_LOCALID", "SLURM_NTASKS", "SLURM_JOB_NODELIST">>

\* What os.environ holds for one variable: a usable value, nothing, or text that is
\* not what the reader expects (not an integer; not a node list scontrol can expand).
EnvStatus == {"ok", "missing", "malformed"}

EnvStates == [1..Len(EnvVars) -> EnvStatus]

EnvOk == [i \in 1..Len(EnvVars) |-> "ok"]

\* line 88: --log-interval defaults to 10.
DefaultLogInterval == 10

\* --log-interval as tried: every batch is logged, or the default.
LogIntervals == {1, DefaultLogInterval}

\* --datasetDir: a directory holding MNIST, a directory without it, or not given (None).
DatasetDirs == {"present", "absent", "none"}

Count(s, x) == Len(SelectSeq(s, LAMBDA y : y = x))

Range(s) == {s[i] : i \in 1..Len(s)}

RECURSIVE SumSeq(_)
SumSeq(s) == IF s = <<>> THEN 0 ELSE Head(s) + SumSeq(Tail(s))

CeilDiv(a, b) == (a + b - 1) \div b

RECURSIVE Gcd(_, _)
Gcd(a, b) == IF b = 0 THEN a ELSE Gcd(b, a % b)

\* torch.randperm under the sampler's seeded generator: one fixed permutation of
\* 0 .. n-1 that the model does not know.  Every permutation is considered up to
\* the size `full`; above it the affine ones i -> (a*i + b) mod n.
AllPerms(n) == {f \in [1..n -> 0..(n-1)] : \A i, j \in 1..n : f[i] = f[j] => i = j}

AffinePerms(n) ==
    {[i \in 1..n |-> (a * (i - 1) + b) % n] :
        a \in {x \in 1..n : Gcd(x, n) = 1}, b \in 0..(n-1)}

ShufflePerms(n, full) == IF n <= full THEN AllPerms(n) ELSE AffinePerms(n)

\* ------------------------------------------------------------------ DistributedSampler, DataLoader
\* DistributedSampler.__init__ with drop_last=False: every rank gets ceil(N / W) samples.
NumSamples(n, w) == CeilDiv(n, w)

TotalSize(n, w) == NumSamples(n, w) * w

RECURSIVE Repeat(_, _)
Repeat(s, k) == IF k = 0 THEN <<>> ELSE s \o Repeat(s, k - 1)

Padded_NoPadding(ind, total) == ind

\* DistributedSampler.__iter__: "add extra samples to make it evenly divisible".
Padded(ind, total) ==
    LET padding_size == total - Len(ind)
    IN  IF padding_size <= Len(ind)
        THEN ind \o SubSeq(ind, 1, padding_size)
        ELSE ind \o SubSeq(Repeat(ind, CeilDiv(padding_size, Len(ind))), 1, padding_size)

Subsample_Contiguous(ind, rank, total, w) ==
    [j \in 1..(total \div w) |-> ind[rank + j]]

\* DistributedSampler.__iter__: indices[rank:total_size:num_replicas].
Subsample(ind, rank, total, w) ==
    LET avail == IF Len(ind) < total THEN Len(ind) ELSE total
    IN  [j \in 1..(IF avail > rank THEN CeilDiv(avail - rank, w) ELSE 0) |->
            ind[rank + (j - 1) * w + 1]]

\* The index sequence the sampler of `rank` yields for a dataset of n examples
\* shuffled as ind.
DistributedSampler(ind, n, w, rank) ==
    Subsample(Padded(ind, TotalSize(n, w)), rank, TotalSize(n, w), w)

\* len(DataLoader) with drop_last=False.
NumBatches(sh, b) == CeilDiv(Len(sh), b)

\* The k-th batch (k from 0) of a loader over the shard sh.
Batch(sh, b, k) ==
    SubSeq(sh, k * b + 1, IF (k + 1) * b < Len(sh) THEN (k + 1) * b ELSE Len(sh))

\* ------------------------------------------------------------------ model, gradients
\* loss.backward() on one replica: the local gradient is a function of the replica's
\* parameters and of the examples of its batch.
LocalGrad(p, data) == (params[p] + SumSeq(data) + Len(data)) % ParamMod

\* pred.eq(target) for example i of the test set: whether the replica classifies it
\* correctly is a function of the replica's parameters and of the example.
Predicts(p, i) == (params[p] + i) % ParamMod = 0

AllReduce_LocalOnly(p, k) == contrib[p][k]

\* DistributedDataParallel's gradient hook: the k-th all-reduce sums the k-th local
\* gradient of every rank and divides by world_size; every rank receives the result.
AllReduce(p, k) ==
    SumSeq([q \in 1..world_size |-> contrib[q - 1][k]]) \div world_size

\* The k-th all-reduce has every rank's contribution.
AllReduceReady(k) == \A q \in Procs : Len(contrib[q]) >= k

\* ------------------------------------------------------------------ initial states
\* A job whose environment or dataset directory is at fault never trains, so its
\* training configuration is left at the smallest one.
Faulty(e, dsd) == e # EnvOk \/ dsd # "present"

\* The state of a job of w processes before any of them has run.
Start(w, n, ind, b, ep, li, sv, dsd, e, bad) ==
    /\ world_size = w
    /\ environ = [p \in 0..(w - 1) |-> IF p \in bad THEN e ELSE EnvOk]
    /\ args = [batch_size |-> b, epochs |-> ep, log_interval |-> li,
               save_model |-> sv, datasetDir |-> dsd]
    /\ dataset_len = n
    /\ indices = ind
    /\ pc = [p \in 0..(w - 1) |-> "start"]
    /\ called = {}
    /\ joined = {}
    /\ shard = [p \in 0..(w - 1) |-> <<>>]
    /\ params = [p \in 0..(w - 1) |-> 0]
    /\ momentum = [p \in 0..(w - 1) |-> 0]
    /\ bcast = -1
    /\ epoch = [p \in 0..(w - 1) |-> 0]
    /\ batch_idx = [p \in 0..(w - 1) |-> 0]
    /\ contrib = [p \in 0..(w - 1) |-> <<>>]
    /\ console = [p \in 0..(w - 1) |-> <<>>]
    /\ trace = [p \in 0..(w - 1) |-> <<>>]
    /\ ckpt = -1
    /\ writers = {}
    /\ test_len = n   \* a test set of the size of the training set: test_sampler, seeded
                      \* like train_sampler, then shuffles it the same way
    /\ test_shard = [p \in 0..(w - 1) |-> <<>>]
    /\ correct = [p \in 0..(w - 1) |-> 0]

\* The end-to-end scenario of two ranks, ten examples and batches of five.
EndToEnd == [world_size |-> 2, dataset_len |-> 10, batch_size |-> 5]

InitBounded ==
    \E w \in 1..MaxW, n \in 1..MaxN, b \in 1..MaxB, ep \in 0..MaxE,
       li \in LogIntervals, sv \in BOOLEAN, dsd \in DatasetDirs, e \in EnvStates :
      \E bad \in SUBSET (0..(w - 1)), ind \in ShufflePerms(n, JobShuffleN) :
        /\ (e = EnvOk) <=> (bad = {})
        /\ Faulty(e, dsd) => (n = 1 /\ b = 1 /\ ep = 1 /\ li = 1 /\ sv)
        /\ Start(w, n, ind, b, ep, li, sv, dsd, e, bad)

InitEndToEnd ==
    \E ind \in AffinePerms(EndToEnd.dataset_len) :
        Start(EndToEnd.world_size, EndToEnd.dataset_len, ind, EndToEnd.batch_size,
              1, 1, FALSE, "present", EnvOk, {})

Init == InitBounded \/ InitEndToEnd

\* The sampler on its own: every process has joined the rendezvous and is about to
\* build its datasets and samplers, for the wider range of dataset sizes, world
\* sizes and batch sizes.
InitShard ==
    \E w \in 1..MaxW, n \in 1..ShardMaxN, b \in 1..ShardMaxB :
      \E ind \in ShufflePerms(n, FullShuffleN) :
        /\ world_size = w
        /\ environ = [p \in 0..(w - 1) |-> EnvOk]
        /\ args = [batch_size |-> b, epochs |-> 1, log_interval |-> 1,
                   save_model |-> FALSE, datasetDir |-> "present"]
        /\ dataset_len = n
        /\ indices = ind
        /\ pc = [p \in 0..(w - 1) |-> "load"]
        /\ called = 0..(w - 1)
        /\ joined = 0..(w - 1)
        /\ shard = [p \in 0..(w - 1) |-> <<>>]
        /\ params = [p \in 0..(w - 1) |-> 0]
        /\ momentum = [p \in 0..(w - 1) |-> 0]
        /\ bcast = -1
        /\ epoch = [p \in 0..(w - 1) |-> 0]
        /\ batch_idx = [p \in 0..(w - 1) |-> 0]
        /\ contrib = [p \in 0..(w - 1) |-> <<>>]
        /\ console = [p \in 0..(w - 1) |-> <<>>]
        /\ trace = [p \in 0..(w - 1) |-> <<"dist_init", "joined">>]
        /\ ckpt = -1
        /\ writers = {}
        /\ test_len = n
        /\ test_shard = [p \in 0..(w - 1) |-> <<>>]
        /\ correct = [p \in 0..(w - 1) |-> 0]

\* ------------------------------------------------------------------ main(), step by step
Did(p, op) == trace' = [trace EXCEPT ![p] = Append(@, op)]

Goto(p, label) == pc' = [pc EXCEPT ![p] = label]

\* line 95: parser.parse_args(); --datasetDir is optional, so parsing succeeds.
parse_args(p) ==
    /\ pc[p] = "start"
    /\ Goto(p, "environ")
    /\ UNCHANGED <<world_size, test_len, test_shard, correct,
                   environ, args, dataset_len, indices, called, joined, shard,
                   params, momentum, bcast, epoch, batch_idx, contrib, console, trace,
                   ckpt, writers>>

EnvReadFails_OnlyRank(p) == environ[p][1] # "ok"

\* lines 98-101: os.environ[...] raises KeyError for a missing variable and int(...)
\* raises ValueError for text that is no integer; the node list is only looked up.
EnvReadFails(p) ==
    \/ \E i \in 1..3 : environ[p][i] # "ok"
    \/ environ[p][4] = "missing"

\* line 102: subprocess.getoutput never raises; a node list scontrol cannot expand
\* yields its error text as the address.
AddressOk(p) == environ[p][4] = "ok"

\* lines 98-102
read_environ(p) ==
    /\ pc[p] = "environ"
    /\ IF EnvReadFails(p) THEN Goto(p, "failed") ELSE Goto(p, "dist_init")
    /\ UNCHANGED <<world_size, test_len, test_shard, correct,
                   environ, args, dataset_len, indices, called, joined, shard,
                   params, momentum, bcast, epoch, batch_idx, contrib, console, trace,
                   ckpt, writers>>

\* lines 104, 17-20: the process enters init_process_group.
dist_init_call(p) ==
    /\ pc[p] = "dist_init"
    /\ called' = called \cup {p}
    /\ joined' = IF AddressOk(p) THEN joined \cup {p} ELSE joined
    /\ Did(p, "dist_init")
    /\ Goto(p, "rendezvous")
    /\ UNCHANGED <<world_size, test_len, test_shard, correct,
                   environ, args, dataset_len, indices, shard, params, momentum,
                   bcast, epoch, batch_idx, contrib, console, ckpt, writers>>

RendezvousComplete_NoWait == TRUE

\* init_process_group returns once all world_size processes have connected.
RendezvousComplete == joined = Procs

\* lines 20-23: init_process_group returns, the device is bound.
dist_init_return(p) ==
    /\ pc[p] = "rendezvous"
    /\ p \in joined
    /\ RendezvousComplete
    /\ Did(p, "joined")
    /\ Goto(p, "load")
    /\ UNCHANGED <<world_size, test_len, test_shard, correct,
                   environ, args, dataset_len, indices, called, joined, shard,
                   params, momentum, bcast, epoch, batch_idx, contrib, console, ckpt, writers>>

\* lines 19-20: init_process_group raises: the address does not resolve, or a peer
\* that has already failed never connects and the rendezvous times out.
dist_init_fail(p) ==
    /\ pc[p] = "rendezvous"
    /\ \/ p \notin joined
       \/ \E q \in Procs : q \notin joined /\ pc[q] = "failed"
    /\ Goto(p, "failed")
    /\ UNCHANGED <<world_size, test_len, test_shard, correct,
                   environ, args, dataset_len, indices, called, joined, shard,
                   params, momentum, bcast, epoch, batch_idx, contrib, console, trace,
                   ckpt, writers>>

DatasetLoadFails_Never == FALSE

\* line 107: datasets.MNIST(args.datasetDir, download=False) raises when the
\* directory is None or holds no MNIST files.
DatasetLoadFails == args.datasetDir # "present"

\* lines 107-127: the datasets, the samplers and the loaders.
load_datasets(p) ==
    /\ pc[p] = "load"
    /\ IF DatasetLoadFails
       THEN /\ Goto(p, "failed")
            /\ UNCHANGED <<shard, test_shard, trace>>
       ELSE /\ shard' = [shard EXCEPT
                            ![p] = DistributedSampler(indices, dataset_len, world_size, p)]
            /\ test_shard' = [test_shard EXCEPT
                            ![p] = DistributedSampler(indices, test_len, world_size, p)]
            /\ Did(p, "dataset")
            /\ Goto(p, "model")
    /\ UNCHANGED <<world_size, test_len, correct,
                   environ, args, dataset_len, indices, called, joined, params,
                   momentum, bcast, epoch, batch_idx, contrib, console, ckpt, writers>>

\* lines 129-134: ResNet18() draws its initial parameters at random; no seed is set
\* (args.seed is never used), so each process draws its own.
create_model(p) ==
    /\ pc[p] = "model"
    /\ \E v \in 0..(ParamMod - 1) : params' = [params EXCEPT ![p] = v]
    /\ Did(p, "model")
    /\ Goto(p, "ddp")
    /\ UNCHANGED <<world_size, test_len, test_shard, correct,
                   environ, args, dataset_len, indices, called, joined, shard,
                   momentum, bcast, epoch, batch_idx, contrib, console, ckpt, writers>>

EnterEpoch_StopsEarly(p) ==
    IF epoch[p] + 1 < args.epochs
    THEN /\ epoch' = [epoch EXCEPT ![p] = @ + 1]
         /\ batch_idx' = [batch_idx EXCEPT ![p] = 0]
         /\ Goto(p, "train")
    ELSE /\ Goto(p, "elapsed")
         /\ UNCHANGED <<epoch, batch_idx>>

\* line 141: for epoch in range(1, args.epochs + 1): the next epoch starts with its
\* first batch, or the loop is over.
EnterEpoch(p) ==
    IF epoch[p] < args.epochs
    THEN /\ epoch' = [epoch EXCEPT ![p] = @ + 1]
         /\ batch_idx' = [batch_idx EXCEPT ![p] = 0]
         /\ Goto(p, "train")
    ELSE /\ Goto(p, "elapsed")
         /\ UNCHANGED <<epoch, batch_idx>>

\* lines 135-141: DistributedDataParallel(model) broadcasts rank 0's parameters to
\* every replica (a receiver waits for rank 0 to send); SGD starts with no momentum; the epoch
\* loop is entered.
ddp_wrap(p) ==
    /\ pc[p] = "ddp"
    /\ IF p = 0
       THEN /\ bcast' = params[0]
            /\ UNCHANGED params
       ELSE /\ bcast # -1
            /\ params' = [params EXCEPT ![p] = bcast]
            /\ UNCHANGED bcast
    /\ momentum' = [momentum EXCEPT ![p] = 0]
    /\ Did(p, "ddp")
    /\ EnterEpoch(p)
    /\ UNCHANGED <<world_size, test_len, test_shard, correct,
                   environ, args, dataset_len, indices, called, joined, shard,
                   contrib, console, ckpt, writers>>

\* Several operations performed in a row.
DidAll(p, ops) == trace' = [trace EXCEPT ![p] = @ \o ops]

train_backward_ZeroGradLast(p) ==
    /\ pc[p] = "train"
    /\ contrib' = [contrib EXCEPT
                     ![p] = Append(@, LocalGrad(p, Batch(shard[p], args.batch_size,
                                                          batch_idx[p])))]
    /\ DidAll(p, <<"forward", "loss", "backward", "zero_grad">>)
    /\ Goto(p, "allreduce")
    /\ UNCHANGED <<world_size, test_len, test_shard, correct,
                   environ, args, dataset_len, indices, called, joined, shard,
                   params, momentum, bcast, epoch, batch_idx, console, ckpt, writers>>

\* lines 39-44: the batch is fetched, the gradients are zeroed (41), forward (42),
\* loss (43), and backward (44), which hands the local gradient to the all-reduce.
train_backward(p) ==
    /\ pc[p] = "train"
    /\ contrib' = [contrib EXCEPT
                     ![p] = Append(@, LocalGrad(p, Batch(shard[p], args.batch_size,
                                                          batch_idx[p])))]
    /\ DidAll(p, <<"zero_grad", "forward", "loss", "backward">>)
    /\ Goto(p, "allreduce")
    /\ UNCHANGED <<world_size, test_len, test_shard, correct,
                   environ, args, dataset_len, indices, called, joined, shard,
                   params, momentum, bcast, epoch, batch_idx, console, ckpt, writers>>

\* line 46: if batch_idx % args.log_interval == 0 and rank == 0
TrainLogs(p) == batch_idx[p] % args.log_interval = 0 /\ p = 0

train_optimizer_step_Unsynchronised(p) ==
    /\ pc[p] = "allreduce"
    /\ LET g == contrib[p][Len(contrib[p])]
           m == (momentum[p] + g) % ParamMod
       IN  /\ momentum' = [momentum EXCEPT ![p] = m]
           /\ params' = [params EXCEPT ![p] = (@ + ParamMod - m) % ParamMod]
    /\ console' = IF TrainLogs(p) THEN [console EXCEPT ![p] = Append(@, "train")]
                  ELSE console
    /\ batch_idx' = [batch_idx EXCEPT ![p] = @ + 1]
    /\ IF batch_idx[p] + 1 < NumBatches(shard[p], args.batch_size)
       THEN /\ Goto(p, "train")
            /\ Did(p, "step")
       ELSE /\ Goto(p, "test")
            /\ DidAll(p, <<"step", "train">>)
    /\ UNCHANGED <<world_size, test_len, test_shard, correct,
                   environ, args, dataset_len, indices, called, joined, shard,
                   bcast, epoch, contrib, ckpt, writers>>

\* lines 44-49: the all-reduce completes, optimizer.step() applies the averaged
\* gradient (SGD with momentum), the progress line is printed, and the loop goes on
\* to the next batch or train() returns.
train_optimizer_step(p) ==
    /\ pc[p] = "allreduce"
    /\ AllReduceReady(Len(contrib[p]))
    /\ LET g == AllReduce(p, Len(contrib[p]))
           m == (momentum[p] + g) % ParamMod
       IN  /\ momentum' = [momentum EXCEPT ![p] = m]
           /\ params' = [params EXCEPT ![p] = (@ + ParamMod - m) % ParamMod]
    /\ console' = IF TrainLogs(p) THEN [console EXCEPT ![p] = Append(@, "train")]
                  ELSE console
    /\ batch_idx' = [batch_idx EXCEPT ![p] = @ + 1]
    /\ IF batch_idx[p] + 1 < NumBatches(shard[p], args.batch_size)
       THEN /\ Goto(p, "train")
            /\ Did(p, "step")
       ELSE /\ Goto(p, "test")
            /\ DidAll(p, <<"step", "train">>)
    /\ UNCHANGED <<world_size, test_len, test_shard, correct,
                   environ, args, dataset_len, indices, called, joined, shard,
                   bcast, epoch, contrib, ckpt, writers>>

test_UpdatesModel(p) ==
    /\ pc[p] = "test"
    /\ console' = IF p = 0 THEN [console EXCEPT ![p] = Append(@, "test")] ELSE console
    /\ params' = [params EXCEPT ![p] = (@ + 1) % ParamMod]
    /\ correct' = [correct EXCEPT ![p] = Len(SelectSeq(test_shard[p], LAMBDA i : Predicts(p, i)))]
    /\ Did(p, "test")
    /\ EnterEpoch(p)
    /\ UNCHANGED <<world_size, test_len, test_shard,
                   environ, args, dataset_len, indices, called, joined, shard,
                   momentum, bcast, contrib, ckpt, writers>>

test_AnyRankPrints(p) ==
    /\ pc[p] = "test"
    /\ console' = [console EXCEPT ![p] = Append(@, "test")]
    /\ correct' = [correct EXCEPT ![p] = Len(SelectSeq(test_shard[p], LAMBDA i : Predicts(p, i)))]
    /\ Did(p, "test")
    /\ EnterEpoch(p)
    /\ UNCHANGED <<world_size, test_len, test_shard,
                   environ, args, dataset_len, indices, called, joined, shard,
                   params, momentum, bcast, contrib, ckpt, writers>>

\* lines 51-68, 141: evaluation under torch.no_grad() over the rank's test shard;
\* only rank 0 prints the summary; then the loop goes on to the next epoch.
test(p) ==
    /\ pc[p] = "test"
    /\ console' = IF p = 0 THEN [console EXCEPT ![p] = Append(@, "test")] ELSE console
    /\ correct' = [correct EXCEPT ![p] = Len(SelectSeq(test_shard[p], LAMBDA i : Predicts(p, i)))]
    /\ Did(p, "test")
    /\ EnterEpoch(p)
    /\ UNCHANGED <<world_size, test_len, test_shard,
                   environ, args, dataset_len, indices, called, joined, shard,
                   params, momentum, bcast, contrib, ckpt, writers>>

\* lines 144-147: the loop is over; rank 0 prints the elapsed time.
elapsed_print(p) ==
    /\ pc[p] = "elapsed"
    /\ console' = IF p = 0 THEN [console EXCEPT ![p] = Append(@, "elapsed")] ELSE console
    /\ Goto(p, "save")
    /\ UNCHANGED <<world_size, test_len, test_shard, correct,
                   environ, args, dataset_len, indices, called, joined, shard,
                   params, momentum, bcast, epoch, batch_idx, contrib, trace, ckpt, writers>>

SavesModel_Always(p) == TRUE

save_model_CleansUpToo(p) ==
    /\ pc[p] = "save"
    /\ IF args.save_model
       THEN /\ ckpt' = params[p]
            /\ writers' = writers \cup {p}
            /\ trace' = [trace EXCEPT ![p] = @ \o <<"save", "cleanup">>]
       ELSE UNCHANGED <<ckpt, writers, trace>>
    /\ Goto(p, "cleanup")
    /\ UNCHANGED <<world_size, test_len, test_shard, correct,
                   environ, args, dataset_len, indices, called, joined, shard,
                   params, momentum, bcast, epoch, batch_idx, contrib, console>>

\* line 150: if (args.save_model): the rank is not consulted.
SavesModel(p) == args.save_model

\* lines 150-151: torch.save(model.state_dict(), "mnist_cnn.pt")
save_model(p) ==
    /\ pc[p] = "save"
    /\ IF SavesModel(p)
       THEN /\ ckpt' = params[p]
            /\ writers' = writers \cup {p}
            /\ Did(p, "save")
       ELSE UNCHANGED <<ckpt, writers, trace>>
    /\ Goto(p, "cleanup")
    /\ UNCHANGED <<world_size, test_len, test_shard, correct,
                   environ, args, dataset_len, indices, called, joined, shard,
                   params, momentum, bcast, epoch, batch_idx, contrib, console>>

\* lines 153, 25-26: destroy_process_group(), then main() returns.
cleanup(p) ==
    /\ pc[p] = "cleanup"
    /\ Did(p, "cleanup")
    /\ Goto(p, "done")
    /\ UNCHANGED <<world_size, test_len, test_shard, correct,
                   environ, args, dataset_len, indices, called, joined, shard,
                   params, momentum, bcast, epoch, batch_idx, contrib, console, ckpt, writers>>

\* ------------------------------------------------------------------ specification
Next ==
    \/ \E p \in Procs : parse_args(p)
    \/ \E p \in Procs : read_environ(p)
    \/ \E p \in Procs : dist_init_call(p)
    \/ \E p \in Procs : dist_init_return(p)
    \/ \E p \in Procs : dist_init_fail(p)
    \/ \E p \in Procs : load_datasets(p)
    \/ \E p \in Procs : create_model(p)
    \/ \E p \in Procs : ddp_wrap(p)
    \/ \E p \in Procs : train_backward(p)
    \/ \E p \in Procs : train_optimizer_step(p)
    \/ \E p \in Procs : test(p)
    \/ \E p \in Procs : elapsed_print(p)
    \/ \E p \in Procs : save_model(p)
    \/ \E p \in Procs : cleanup(p)

Spec == Init /\ [][Next]_vars

NextShard == \E p \in Procs : load_datasets(p)

\* ------------------------------------------------------------------ a process that dies
\* Where main() is between the return of dist_init (line 104) and the return of
\* cleanup (line 153).
AfterDistInit ==
    {"load", "model", "ddp", "train", "allreduce", "test", "elapsed", "save", "cleanup"}

crash_WithFinally(p) ==
    /\ pc[p] \in AfterDistInit
    /\ \A q \in Procs : pc[q] # "failed"
    /\ contrib' = IF pc[p] = "allreduce" /\ ~AllReduceReady(Len(contrib[p]))
                  THEN [contrib EXCEPT ![p] = SubSeq(@, 1, Len(@) - 1)]
                  ELSE contrib
    /\ Did(p, "cleanup")
    /\ Goto(p, "failed")
    /\ UNCHANGED <<world_size, test_len, test_shard, correct,
                   environ, args, dataset_len, indices, called, joined, shard,
                   params, momentum, bcast, epoch, batch_idx, console, ckpt, writers>>

\* lines 104-153: an exception (or a kill) ends the process where it stands: main()
\* has no try/finally, so nothing more of it runs.  One process of the job dies.
\* A process that dies inside an all-reduce its peers have not all entered takes
\* its contribution with it: the collective needs every rank alive to complete.
crash(p) ==
    /\ pc[p] \in AfterDistInit
    /\ \A q \in Procs : pc[q] # "failed"
    /\ contrib' = IF pc[p] = "allreduce" /\ ~AllReduceReady(Len(contrib[p]))
                  THEN [contrib EXCEPT ![p] = SubSeq(@, 1, Len(@) - 1)]
                  ELSE contrib
    /\ Goto(p, "failed")
    /\ UNCHANGED <<world_size, test_len, test_shard, correct,
                   environ, args, dataset_len, indices, called, joined, shard,
                   params, momentum, bcast, epoch, batch_idx, console, trace, ckpt, writers>>

\* A job with a sound environment and dataset, in which a process may die.
InitCrash ==
    \E w \in 1..MaxW, n \in 1..MaxN, b \in 1..MaxB, ep \in 0..MaxE, sv \in BOOLEAN :
      \E ind \in ShufflePerms(n, JobShuffleN) :
        Start(w, n, ind, b, ep, 1, sv, "present", EnvOk, {})

NextCrash ==
    \/ \E p \in Procs : parse_args(p)
    \/ \E p \in Procs : read_environ(p)
    \/ \E p \in Procs : dist_init_call(p)
    \/ \E p \in Procs : dist_init_return(p)
    \/ \E p \in Procs : load_datasets(p)
    \/ \E p \in Procs : create_model(p)
    \/ \E p \in Procs : ddp_wrap(p)
    \/ \E p \in Procs : train_backward(p)
    \/ \E p \in Procs : train_optimizer_step(p)
    \/ \E p \in Procs : test(p)
    \/ \E p \in Procs : elapsed_print(p)
    \/ \E p \in Procs : save_model(p)
    \/ \E p \in Procs : cleanup(p)
    \/ \E p \in Procs : crash(p)

SpecCrash == InitCrash /\ [][NextCrash]_vars

SpecShard == InitShard /\ [][NextShard]_vars

\* ------------------------------------------------------------------ properties
Finished == \A p \in Procs : pc[p] = "done"

Performed(p, op) == \E i \in 1..Len(trace[p]) : trace[p][i] = op

\* C1: with --save-model, torch.save is executed by rank 0 only, and only after
\* all epochs have completed.
C1_OnlyRank0SavesAfterEpochs ==
    \A p \in writers : p = 0 /\ Count(trace[p], "test") = args.epochs

\* C2: every console line (training progress, evaluation summary, elapsed time)
\* is printed by rank 0; no other rank ever prints.
C2_OnlyRank0Prints ==
    \A p \in Procs : p # 0 => console[p] = <<>>

C2_Witness ==
    /\ world_size >= 2
    /\ Finished
    /\ {"train", "test", "elapsed"} \subseteq Range(console[0])
    /\ Count(console[0], "train") < Len(contrib[0])

\* C3: a process that completes normally has called cleanup exactly once, as the
\* last thing it did: after its dist_init and after all its epochs of training and
\* evaluation and its checkpoint step; cleanup is never called earlier and never twice.
C3_CleanupOnceAtEnd ==
    \A p \in Procs :
        /\ Count(trace[p], "cleanup") <= 1
        /\ pc[p] = "done" => Performed(p, "cleanup")
        /\ Performed(p, "cleanup") =>
              /\ trace[p][Len(trace[p])] = "cleanup"
              /\ pc[p] = "done"
              /\ Count(trace[p], "dist_init") = 1
              /\ Performed(p, "joined")
              /\ Count(trace[p], "train") = args.epochs
              /\ Count(trace[p], "test") = args.epochs
              /\ epoch[p] = args.epochs
              /\ p \in writers <=> Performed(p, "save")

C3_Witness ==
    /\ world_size >= 2
    /\ args.epochs >= 2
    /\ args.save_model
    /\ Finished

\* C4 as claimed: a process with any of the four scheduler variables missing or
\* malformed fails before it calls dist_init, builds no dataset and no model, and
\* prints nothing.
C4_AnyEnvFaultFailsBeforeDistInit ==
    \A p \in Procs :
        environ[p] # EnvOk =>
            /\ pc[p] \in {"start", "environ", "failed"}
            /\ p \notin called
            /\ ~Performed(p, "dataset") /\ ~Performed(p, "model")
            /\ console[p] = <<>>

\* C4 as amended: a process with the rank, the local rank or the world size missing
\* or malformed, or with the node list missing, fails before it calls dist_init,
\* builds no dataset and no model and prints nothing; a node list that is only
\* malformed is not detected by the environment read: such a process goes on to
\* call dist_init, and fails no earlier than inside it.
C4_DetectedEnvFaultFailsBeforeDistInit ==
    \A p \in Procs :
        /\ ((\E i \in 1..3 : environ[p][i] \in {"missing", "malformed"})
                \/ environ[p][4] = "missing") =>
            /\ pc[p] \in {"start", "environ", "failed"}
            /\ p \notin called
            /\ trace[p] = <<>>
            /\ console[p] = <<>>
        /\ ((\A i \in 1..3 : environ[p][i] = "ok") /\ environ[p][4] = "malformed"
                /\ pc[p] = "failed") =>
            Performed(p, "dist_init")

C4_Witness ==
    \E p, q \in Procs :
        /\ environ[p][3] = "malformed" /\ pc[p] = "failed"
        /\ q # p /\ environ[q] = EnvOk /\ pc[q] = "failed"

\* C5 as claimed: with the dataset directory missing, a process fails before it
\* joins the rendezvous and before any collective operation.
C5_NoDatasetFailsBeforeRendezvous ==
    args.datasetDir # "present" =>
        \A p \in Procs : p \notin joined /\ ~Performed(p, "ddp") /\ contrib[p] = <<>>

\* C5 as amended: with the dataset directory missing, a process whose environment
\* is sound calls dist_init and joins the rendezvous first; it fails, if the
\* rendezvous completes, at the construction of the training dataset: after dist_init
\* has returned, and before any model is built and any collective operation (the
\* parameter broadcast, a gradient all-reduce) is issued.
C5_NoDatasetFailsAfterRendezvous ==
    args.datasetDir # "present" =>
        /\ bcast = -1
        /\ \A p \in Procs :
            /\ ~Performed(p, "dataset") /\ ~Performed(p, "model") /\ ~Performed(p, "ddp")
            /\ contrib[p] = <<>>
            /\ pc[p] \notin {"model", "ddp", "train", "allreduce", "test",
                             "elapsed", "save", "cleanup", "done"}
            /\ (pc[p] = "failed" /\ environ[p] = EnvOk) => p \in joined
            /\ (pc[p] = "failed" /\ \A q \in Procs : environ[q] = EnvOk) =>
                   trace[p] = <<"dist_init", "joined">>

C5_Witness ==
    /\ args.datasetDir = "none"
    /\ world_size >= 2
    /\ \A p \in Procs : pc[p] = "failed" /\ trace[p] = <<"dist_init", "joined">>

\* ------------------------------------------------------------------ sampler properties
Loaded(p) == Performed(p, "dataset")

AllLoaded == \A p \in Procs : Loaded(p)

\* How often the index i occurs in the shards of all ranks together.
Occurrences(i) == SumSeq([q \in 1..world_size |-> Count(shard[q - 1], i)])

\* The indices repeated as padding: the shuffled sequence, continued cyclically from
\* its start up to the next multiple of world_size.
PaddingPositions ==
    (dataset_len + 1) .. (CeilDiv(dataset_len, world_size) * world_size)

PaddingOf(i) ==
    Cardinality({k \in PaddingPositions : indices[((k - 1) % dataset_len) + 1] = i})

\* C6: the shards of ranks 0 .. W-1 together cover every index 0 .. N-1, overlap
\* (between two ranks, or within one) only in the indices repeated as padding, and
\* each has floor(N/W) or ceil(N/W) elements.
C6_ShardsPartitionDataset ==
    /\ \A p \in Procs :
          Loaded(p) =>
            /\ Len(shard[p]) \in {dataset_len \div world_size,
                                  CeilDiv(dataset_len, world_size)}
            /\ Range(shard[p]) \subseteq 0..(dataset_len - 1)
            /\ \A q \in Procs \ {p} :
                  Loaded(q) =>
                    \A i \in Range(shard[p]) \cap Range(shard[q]) : PaddingOf(i) >= 1
    /\ AllLoaded =>
          \A i \in 0..(dataset_len - 1) :
              /\ \E p \in Procs : i \in Range(shard[p])
              /\ Occurrences(i) = 1 + PaddingOf(i)

C6_Witness ==
    /\ AllLoaded
    /\ world_size >= 2
    /\ dataset_len > world_size
    /\ dataset_len % world_size # 0
    /\ \E p, q \in Procs : p # q /\ Range(shard[p]) \cap Range(shard[q]) # {}

\* ------------------------------------------------------------------ training properties
\* The optimizer steps process p has completed.
StepsDone(p) == IF pc[p] = "allreduce" THEN Len(contrib[p]) - 1 ELSE Len(contrib[p])

\* C7: the replicas, identical before the first training step, are identical after
\* every optimizer step: two ranks that have completed the same number of steps hold
\* the same parameters (and the same momentum).
C7_ReplicaConsistency ==
    \A p, q \in Procs :
        (Performed(p, "ddp") /\ Performed(q, "ddp") /\ StepsDone(p) = StepsDone(q)) =>
            params[p] = params[q] /\ momentum[p] = momentum[q]

C7_Witness ==
    /\ world_size >= 2
    /\ Finished
    /\ StepsDone(0) >= 2
    /\ \E k \in 1..Len(contrib[0]) : contrib[0][k] # contrib[1][k]
    /\ \A p \in Procs : params[p] = params[0]

\* C8: without --save-model no process ever writes the parameter file, for every
\* number of epochs (0 included) and every world size: the file stays as it was.
C8_NoSaveModelNoFile ==
    ~args.save_model => (ckpt = -1 /\ writers = {} /\ \A p \in Procs : ~Performed(p, "save"))

C8_Witness ==
    /\ ~args.save_model
    /\ world_size >= 2
    /\ args.epochs = 0
    /\ Finished

\* C9: every process calls dist_init once, and none returns from it (nor loads a
\* dataset, builds a model or trains) before all world_size processes have called it.
C9_RendezvousBarrier ==
    \A p \in Procs :
        /\ Count(trace[p], "dist_init") <= 1
        /\ Count(trace[p], "joined") <= 1
        /\ (p \in called) <=> Performed(p, "dist_init")
        /\ pc[p] \in {"load", "model", "ddp", "train", "allreduce", "test",
                      "elapsed", "save", "cleanup", "done"} => Performed(p, "joined")
        /\ (Performed(p, "joined") \/ Performed(p, "dataset") \/ Performed(p, "model")
                \/ contrib[p] # <<>>) =>
              \A q \in Procs : Count(trace[q], "dist_init") = 1

C9_Witness ==
    /\ world_size >= 2
    /\ \E p, q \in Procs : Performed(p, "joined") /\ pc[q] = "rendezvous"

\* C10: every rank draws ceil(N/W) examples in ceil(ceil(N/W)/B) training batches per
\* epoch, so every rank has issued that many gradient all-reduces per epoch; two
\* ranks, ten examples and batches of five give five examples and one batch each.
C10_EqualBatchesPerRank ==
    LET examples == CeilDiv(dataset_len, world_size)
        batches == CeilDiv(examples, args.batch_size)
    IN  \A p \in Procs :
          /\ Loaded(p) =>
                /\ Len(shard[p]) = examples
                /\ NumBatches(shard[p], args.batch_size) = batches
                /\ (world_size = 2 /\ dataset_len = 10 /\ args.batch_size = 5) =>
                      (Len(shard[p]) = 5 /\ NumBatches(shard[p], args.batch_size) = 1)
          /\ pc[p] \in {"train", "allreduce"} =>
                /\ batch_idx[p] < batches
                /\ Len(contrib[p]) = (epoch[p] - 1) * batches + batch_idx[p]
                                        + (IF pc[p] = "allreduce" THEN 1 ELSE 0)
          /\ pc[p] = "test" =>
                Len(contrib[p]) = epoch[p] * batches
          /\ pc[p] = "done" => Len(contrib[p]) = args.epochs * batches

C10_Witness ==
    /\ world_size = 2 /\ dataset_len = 10 /\ args.batch_size = 5
    /\ Finished
    /\ \A p \in Procs : Len(shard[p]) = 5 /\ Len(contrib[p]) = 1

\* ------------------------------------------------------------------ step order
StepOrder == <<"zero_grad", "forward", "loss", "backward", "step">>

IsStepOp(op) == op \in Range(StepOrder)

\* The operations of the training steps process p has performed, in order.
StepOps(p) == SelectSeq(trace[p], IsStepOp)

\* Process p performs an optimizer step in this transition.
Steps(p) == Len(trace'[p]) > Len(trace[p]) /\ trace'[p][Len(trace[p]) + 1] = "step"

\* C11: on every rank the operations of every training step come in the order
\* zero-grad, forward, loss, backward, optimizer step; no rank performs optimizer
\* step k before every rank has finished the backward of step k; and optimizer step
\* k applies the gradient of all-reduce k: the sum of the W local gradients of step
\* k, divided by W.
C11_StepOrderAndAllReduce ==
    /\ [](LET steps == [p \in Procs |-> Count(trace[p], "step")]
               backwards == [p \in Procs |-> Count(trace[p], "backward")]
           IN  \A p \in Procs :
                 LET ops == StepOps(p)
                 IN  /\ \A i \in 1..Len(ops) : ops[i] = StepOrder[((i - 1) % Len(StepOrder)) + 1]
                     /\ \A q \in Procs : steps[p] <= backwards[q]
                     /\ backwards[p] = Len(contrib[p]))
    /\ [][\A p \in Procs :
            Steps(p) =>
              LET k == Count(trace'[p], "step")
                  avg == SumSeq([r \in 1..world_size |-> contrib[r - 1][k]]) \div world_size
              IN  /\ \A q \in Procs : Len(contrib[q]) >= k
                  /\ momentum'[p] = (momentum[p] + avg) % ParamMod
                  /\ params'[p] = (params[p] + ParamMod - momentum'[p]) % ParamMod]_vars

C11_Witness ==
    /\ world_size >= 2
    /\ Finished
    /\ \A p \in Procs : Count(trace[p], "step") >= 2
    /\ \E k \in 1..Len(contrib[0]) : contrib[0][k] # contrib[1][k]

\* ------------------------------------------------------------------ crashes
\* The training steps of the whole run of one rank.
TotalSteps ==
    args.epochs * CeilDiv(CeilDiv(dataset_len, world_size), args.batch_size)

\* Process q has reached the end of training, the checkpoint write or cleanup.
ReachedEnd(q) ==
    \/ pc[q] \in {"test", "elapsed", "save", "cleanup", "done"}
         /\ Count(trace[q], "train") = args.epochs
    \/ q \in writers
    \/ Performed(q, "cleanup")

C13_FailureLeaksProcessGroup ==
    \A p \in Procs :
        (pc[p] = "failed" /\ Performed(p, "joined")) =>
            /\ ~Performed(p, "cleanup")
            /\ p \in joined
            /\ p \in writers =>
                  /\ args.save_model
                  /\ Count(trace[p], "train") = args.epochs
                  /\ Count(trace[p], "test") = args.epochs
            /\ Count(trace[p], "test") < args.epochs => (p \notin writers /\ ~Performed(p, "save"))

C13_Witness ==
    \E p \in Procs :
        /\ world_size >= 2
        /\ args.save_model
        /\ pc[p] = "failed"
        /\ Count(trace[p], "step") >= 1
        /\ Count(trace[p], "test") < args.epochs
        /\ p \notin writers

\* ---------------------------------------------------------------- fairness
\* One step of process p in a job in which nothing fails.
Run(p) ==
    \/ parse_args(p)
    \/ read_environ(p)
    \/ dist_init_call(p)
    \/ dist_init_return(p)
    \/ load_datasets(p)
    \/ create_model(p)
    \/ ddp_wrap(p)
    \/ train_backward(p)
    \/ train_optimizer_step(p)
    \/ test(p)
    \/ elapsed_print(p)
    \/ save_model(p)
    \/ cleanup(p)

NextFair ==
    \/ \E p \in Procs : parse_args(p)
    \/ \E p \in Procs : read_environ(p)
    \/ \E p \in Procs : dist_init_call(p)
    \/ \E p \in Procs : dist_init_return(p)
    \/ \E p \in Procs : load_datasets(p)
    \/ \E p \in Procs : create_model(p)
    \/ \E p \in Procs : ddp_wrap(p)
    \/ \E p \in Procs : train_backward(p)
    \/ \E p \in Procs : train_optimizer_step(p)
    \/ \E p \in Procs : test(p)
    \/ \E p \in Procs : elapsed_print(p)
    \/ \E p \in Procs : save_model(p)
    \/ \E p \in Procs : cleanup(p)

\* srun starts every rank as a process of its own (line 155 runs main() in each), and
\* the operating system keeps running a process that is not blocked: a rank that can
\* take its next step eventually takes it.
Fairness == \A p \in 0..(MaxW - 1) : WF_vars(p \in Procs /\ Run(p))

SpecFair == InitCrash /\ [][NextFair]_vars /\ Fairness

\* ------------------------------------------------------------------ epochs
\* C14: with E epochs configured every rank runs E training and E evaluation phases,
\* for the epochs 1 .. E in this order, train(e) wholly before test(e) and test(e)
\* wholly before train(e+1): its optimizer steps and completed phases come as the steps
\* of one epoch, the end of its training, its evaluation, and so on; with E = 0 it
\* trains and evaluates nothing.
C14_EpochsAlternate ==
    LET batches == CeilDiv(CeilDiv(dataset_len, world_size), args.batch_size)
        period == batches + 2
        Expected(i) == IF (i - 1) % period < batches THEN "step"
                       ELSE IF (i - 1) % period = batches THEN "train" ELSE "test"
    IN  \A p \in Procs :
          LET ops == SelectSeq(trace[p], LAMBDA op : op \in {"step", "train", "test"})
              trained == Count(ops, "train")
              tested == Count(ops, "test")
          IN  /\ epoch[p] \in 0..args.epochs
              /\ \A i \in 1..Len(ops) : ops[i] = Expected(i)
              /\ Len(ops) <= args.epochs * period
              /\ pc[p] \in {"train", "allreduce"} => (trained = epoch[p] - 1 /\ tested = epoch[p] - 1)
              /\ pc[p] = "test" => (trained = epoch[p] /\ tested = epoch[p] - 1)
              /\ pc[p] \in {"elapsed", "save", "cleanup", "done"} =>
                    (epoch[p] = args.epochs /\ trained = args.epochs /\ tested = args.epochs)
              /\ args.epochs = 0 => (contrib[p] = <<>> /\ StepOps(p) = <<>> /\ ops = <<>>)

C14_Witness ==
    /\ world_size >= 2
    /\ args.epochs >= 2
    /\ Finished
    /\ \A p \in Procs : Count(trace[p], "step") >= 4

\* C15: an evaluation changes neither the parameters nor the optimizer state of the
\* rank that runs it and hands no gradient to the all-reduce, so the parameters after
\* test(e) are those after train(e), and the replicas stay as equal as they were.
C15_EvaluationChangesNothing ==
    [][\A p \in Procs :
          (Len(trace'[p]) > Len(trace[p]) /\ trace'[p][Len(trace[p]) + 1] = "test") =>
              /\ params' = params
              /\ momentum' = momentum
              /\ contrib' = contrib
              /\ bcast' = bcast
              /\ StepOps(p)' = StepOps(p)]_vars

C15_Witness ==
    /\ world_size >= 2
    /\ Finished
    /\ \A p \in Procs : Count(trace[p], "test") >= 2 /\ params[p] # 0

\* ------------------------------------------------------------- termination
Terminated == \A p \in Procs : pc[p] = "done" /\ Performed(p, "cleanup")

\* C16: in a job whose rendezvous succeeds and in which no process crashes, fair
\* scheduling brings every rank to cleanup and to its end; none stays blocked at a
\* collective.
C16_EveryRankTerminates == <>Terminated

C16_Witness ==
    /\ world_size >= 2
    /\ dataset_len % world_size # 0
    /\ Terminated
    /\ \A p \in Procs : Len(contrib[p]) >= 2

\* ---------------------------------------------------------------- accuracy
\* C17: the count of correct predictions rank 0 accumulates over its shard of the
\* test set never exceeds the denominator len(dataset) / world_size of the accuracy
\* it prints, so the accuracy never exceeds 100%, also when world_size does not
\* divide the size of the test set.
C17_CorrectWithinDenominator ==
    Performed(0, "test") => correct[0] * world_size <= test_len

====
